---- MODULE Spec2Model ----
(***************************************************************************)
(* Model of yandex_market_language's Feed and Shop models                  *)
(* (models/feed.py, models/shop.py): the dict and XML encoders, the tree   *)
(* decoder Shop.from_xml and the streaming decoder Shop.from_iterator.     *)
(***************************************************************************)
EXTENDS Integers, Sequences, FiniteSets, TLC

(***************************************************************************)
(* Python values.  Every value is a record [t, v]: t is the Python type,   *)
(* v the payload, so that None, "" and [] are three different values.      *)
(***************************************************************************)
None == [t |-> "NoneType", v |-> ""]
Str(s) == [t |-> "str", v |-> s]
List(q) == [t |-> "list", v |-> q]
Bool(b) == [t |-> "bool", v |-> b]
DateTime(d) == [t |-> "datetime", v |-> d]

\* Python truth value of x, as tested by "if x:".
Truthy(x) ==
    CASE x.t = "NoneType" -> FALSE
      [] x.t = "str" -> x.v # ""
      [] x.t = "list" -> x.v # <<>>
      [] x.t = "bool" -> x.v
      [] OTHER -> TRUE

\* dict item assignment d[k] = x.
DictSet(d, k, x) == (k :> x) @@ d
EmptyDict == [k \in {} |-> None]

(***************************************************************************)
(* XML elements: a tag, a text, an attribute dict (a set of <<key, value>>  *)
(* pairs) and the sequence of child elements.                              *)
(***************************************************************************)
El(tag, text, attrib, kids) ==
    [tag |-> tag, text |-> text, attrib |-> attrib, kids |-> kids]

\* el.attrib.get(key)
AttribGet(el, key) ==
    IF \E p \in el.attrib : p[1] = key
    THEN Str((CHOOSE p \in el.attrib : p[1] = key)[2])
    ELSE None

Tags(kids) == [i \in 1..Len(kids) |-> kids[i].tag]

(***************************************************************************)
(* Results of an operation that may raise: status is "ok" or the name of   *)
(* the exception class, value the returned object (None when raised), msg  *)
(* the exception message.                                                  *)
(***************************************************************************)
Ok(x) == [status |-> "ok", value |-> x, msg |-> ""]
Raise(cls, msg) == [status |-> cls, value |-> None, msg |-> msg]

(***************************************************************************)
(* Leaf entities Currency, Category, Option, Gift, Promo and the offer     *)
(* kinds.  Their modules are outside models/shop.py and models/feed.py; an *)
(* entity keeps its class, its id attribute and its text.                  *)
(***************************************************************************)
LeafFromXml(cls, el) ==
    [cls |-> cls, id |-> AttribGet(el, "id"), text |-> el.text]

LeafTag(cls) ==
    CASE cls = "Currency" -> "currency"
      [] cls = "Category" -> "category"
      [] cls = "Option" -> "option"
      [] cls = "Gift" -> "gift"
      [] cls = "Promo" -> "promo"
      [] OTHER -> "offer"

OfferTypeOf(cls) ==
    CASE cls = "ArbitraryOffer" -> {<<"type", "vendor.model">>}
      [] cls = "BookOffer" -> {<<"type", "book">>}
      [] cls = "AudioBookOffer" -> {<<"type", "audiobook">>}
      [] cls = "MusicVideoOffer" -> {<<"type", "artist.title">>}
      [] cls = "MedicineOffer" -> {<<"type", "medicine">>}
      [] cls = "EventTicketOffer" -> {<<"type", "event-ticket">>}
      [] cls = "AlcoholOffer" -> {<<"type", "alco">>}
      [] OTHER -> {}

\* entity.to_dict()
LeafToDict(e) ==
    [id |-> e.id, text |-> e.text, type |-> OfferTypeOf(e.cls)]

\* entity.to_xml(): the simplified offer and the leaves carry no type.
LeafToXml(e) ==
    El(LeafTag(e.cls), e.text,
       (IF e.id = None THEN {} ELSE {<<"id", e.id.v>>}) \cup OfferTypeOf(e.cls),
       <<>>)

\* [Cls.from_xml(child) for child in el]
LeavesFromXml(cls, el) == [i \in 1..Len(el.kids) |-> LeafFromXml(cls, el.kids[i])]

(***************************************************************************)
(* fields.EnableAutoDiscountField, fields.DeliveryOptionsField and         *)
(* fields.PickupOptionsField (outside the two model files).                *)
(***************************************************************************)
TrueTokens == {"yes", "true", "1"}
FalseTokens == {"no", "false", "0"}

\* enable_auto_discounts setter: the stored _enable_auto_discounts.
EnableAutoDiscountsSet(value) ==
    CASE value = None -> Ok(None)
      [] value.t = "bool" -> Ok(Str(IF value.v THEN "true" ELSE "false"))
      [] value.t = "str" /\ value.v \in TrueTokens -> Ok(Str("true"))
      [] value.t = "str" /\ value.v \in FalseTokens -> Ok(Str("false"))
      [] OTHER -> Raise("ValidationError", "enable_auto_discounts")

\* enable_auto_discounts getter
EnableAutoDiscountsGet(stored) ==
    IF stored = None THEN None ELSE Bool(stored.v = "true")

\* delivery_options / pickup_options setter: no options is the empty list.
OptionsSet(value) == IF Truthy(value) THEN value ELSE List(<<>>)

(***************************************************************************)
(* Shop (models/shop.py).                                                  *)
(***************************************************************************)
ShopArgs ==
    {"name", "company", "currencies", "categories", "offers", "url",
     "platform", "version", "agency", "email", "delivery_options",
     "pickup_options", "enable_auto_discounts", "gifts", "promos"}

RequiredArgs == {"name", "company", "currencies", "categories", "offers"}

\* The value bound to parameter k: the keyword given, else the default None.
Arg(kw, k) == IF k \in DOMAIN kw THEN kw[k] ELSE None

\* url setter
UrlSet(value) == Ok(value)

\* Shop(**kw): __init__ assigns every attribute through its setter.
ShopInit(kw) ==
    LET url == UrlSet(Arg(kw, "url"))
        ead == EnableAutoDiscountsSet(Arg(kw, "enable_auto_discounts"))
    IN  IF ~(RequiredArgs \subseteq DOMAIN kw) \/ ~(DOMAIN kw \subseteq ShopArgs)
        THEN Raise("TypeError", "__init__")
        ELSE IF url.status # "ok" THEN url
        ELSE IF ead.status # "ok" THEN ead
        ELSE Ok([name |-> kw["name"],
                 company |-> kw["company"],
                 _url |-> url.value,
                 platform |-> Arg(kw, "platform"),
                 version |-> Arg(kw, "version"),
                 agency |-> Arg(kw, "agency"),
                 email |-> Arg(kw, "email"),
                 currencies |-> kw["currencies"],
                 categories |-> kw["categories"],
                 _delivery_options |-> OptionsSet(Arg(kw, "delivery_options")),
                 _pickup_options |-> OptionsSet(Arg(kw, "pickup_options")),
                 _enable_auto_discounts |-> ead.value,
                 offers |-> kw["offers"],
                 gifts |-> Arg(kw, "gifts"),
                 promos |-> Arg(kw, "promos")])

\* getattr(shop, tag) for the simple elements of create_xml
ShopAttr(shop, tag) ==
    CASE tag = "name" -> shop.name
      [] tag = "company" -> shop.company
      [] tag = "url" -> shop._url
      [] tag = "platform" -> shop.platform
      [] tag = "version" -> shop.version
      [] tag = "agency" -> shop.agency
      [] tag = "email" -> shop.email
      [] tag = "enable_auto_discounts" ->
             EnableAutoDiscountsGet(shop._enable_auto_discounts)

DictsOf(lst) == List([i \in 1..Len(lst.v) |-> LeafToDict(lst.v[i])])

\* Shop.create_dict
ShopCreateDict(shop) ==
    [name |-> shop.name,
     company |-> shop.company,
     url |-> shop._url,
     platform |-> shop.platform,
     version |-> shop.version,
     agency |-> shop.agency,
     email |-> shop.email,
     currencies |-> DictsOf(shop.currencies),
     categories |-> DictsOf(shop.categories),
     delivery_options |-> DictsOf(shop._delivery_options),
     pickup_options |-> DictsOf(shop._pickup_options),
     enable_auto_discounts |-> EnableAutoDiscountsGet(shop._enable_auto_discounts),
     offers |-> DictsOf(shop.offers),
     gifts |-> IF Truthy(shop.gifts) THEN DictsOf(shop.gifts) ELSE List(<<>>),
     promos |-> IF Truthy(shop.promos) THEN DictsOf(shop.promos) ELSE List(<<>>)]

\* AbstractModel.to_dict() without clean: the dict create_dict builds.
ShopToDict(shop) == ShopCreateDict(shop)

SimpleTags == <<"name", "company", "url", "platform", "version", "agency", "email">>

\* for c in lst: c.to_xml(parent)
XmlOf(lst) == [i \in 1..Len(lst.v) |-> LeafToXml(lst.v[i])]

\* The items of "for c in self.currencies" that pass "if not
\* isinstance(c, str)": a str is iterated by character and every
\* character is a str; a list loses its str items.
NotStr(item) == ~("t" \in DOMAIN item /\ item.t = "str")
NonStrItems(lst) ==
    IF lst.t = "str" THEN List(<<>>) ELSE List(SelectSeq(lst.v, NotStr))

\* One optional child: present when cond holds.
Opt(cond, el) == IF cond THEN <<el>> ELSE <<>>

RECURSIVE SimpleEls(_, _)
SimpleEls(shop, i) ==
    IF i > Len(SimpleTags) THEN <<>>
    ELSE Opt(Truthy(ShopAttr(shop, SimpleTags[i])),
             El(SimpleTags[i], ShopAttr(shop, SimpleTags[i]), {}, <<>>))
         \o SimpleEls(shop, i + 1)

\* AlwaysWrapper with the guard of the optional wrappers put on it.
AlwaysWrapperIfAny(tag, lst) ==
    IF Truthy(lst) THEN <<El(tag, None, {}, XmlOf(lst))>> ELSE <<>>

\* A wrapper create_xml always appends (currencies, categories, offers).
AlwaysWrapper(tag, lst) == <<El(tag, None, {}, XmlOf(lst))>>

\* A wrapper create_xml appends under "if self.<collection>:"
\* (delivery-options, pickup-options, gifts, promos).
OptionalWrapper(tag, lst) ==
    IF Truthy(lst) THEN <<El(tag, None, {}, XmlOf(lst))>> ELSE <<>>

\* Shop.create_xml: the shop element.
ShopCreateXml(shop) ==
    El("shop", None, {},
       SimpleEls(shop, 1)
       \o AlwaysWrapper("currencies", NonStrItems(shop.currencies))
       \o AlwaysWrapper("categories", shop.categories)
       \o OptionalWrapper("delivery-options", shop._delivery_options)
       \o OptionalWrapper("pickup-options", shop._pickup_options)
       \o Opt(Truthy(shop._enable_auto_discounts),
              El("enable_auto_discounts", shop._enable_auto_discounts, {}, <<>>))
       \o AlwaysWrapper("offers", shop.offers)
       \o OptionalWrapper("gifts", shop.gifts)
       \o OptionalWrapper("promos", shop.promos))

(***************************************************************************)
(* Shop.from_xml: the tree decoder.                                        *)
(***************************************************************************)
UnexpectedType(offer_type) ==
    Raise("ParseError", "Got unexpected offer type: " \o offer_type.v)

\* The if/elif chain of from_xml on offer_el.attrib.get("type").
OfferFromXml(offer_el) ==
    LET offer_type == AttribGet(offer_el, "type")
    IN  CASE offer_type = None -> Ok(LeafFromXml("SimplifiedOffer", offer_el))
          [] offer_type = Str("vendor.model") -> Ok(LeafFromXml("ArbitraryOffer", offer_el))
          [] offer_type = Str("book") -> Ok(LeafFromXml("BookOffer", offer_el))
          [] offer_type = Str("audiobook") -> Ok(LeafFromXml("AudioBookOffer", offer_el))
          [] offer_type = Str("artist.title") -> Ok(LeafFromXml("MusicVideoOffer", offer_el))
          [] offer_type = Str("medicine") -> Ok(LeafFromXml("MedicineOffer", offer_el))
          [] offer_type = Str("event-ticket") -> Ok(LeafFromXml("EventTicketOffer", offer_el))
          [] offer_type = Str("alco") -> Ok(LeafFromXml("AlcoholOffer", offer_el))
          [] OTHER -> UnexpectedType(offer_type)

\* The loop over the children of the offers element, from child i on.
RECURSIVE OffersFromXml(_, _, _)
OffersFromXml(kids, i, offers) ==
    IF i > Len(kids) THEN Ok(offers)
    ELSE LET offer == OfferFromXml(kids[i])
         IN  IF offer.status # "ok" THEN offer
             ELSE OffersFromXml(kids, i + 1, Append(offers, offer.value))

\* One iteration of "for el in shop_el": kwargs after it.
FromXmlChild(kwargs, el) ==
    CASE el.tag = "currencies" ->
             Ok(DictSet(kwargs, "currencies", List(LeavesFromXml("Currency", el))))
      [] el.tag = "categories" ->
             Ok(DictSet(kwargs, "categories", List(LeavesFromXml("Category", el))))
      [] el.tag = "delivery-options" ->
             Ok(DictSet(kwargs, "delivery_options", List(LeavesFromXml("Option", el))))
      [] el.tag = "pickup-options" ->
             Ok(DictSet(kwargs, "pickup_options", List(LeavesFromXml("Option", el))))
      [] el.tag = "offers" ->
             LET offers == OffersFromXml(el.kids, 1, <<>>)
             IN  IF offers.status # "ok" THEN offers
                 ELSE Ok(DictSet(kwargs, "offers", List(offers.value)))
      [] el.tag = "gifts" ->
             IF el.kids # <<>>
             THEN Ok(DictSet(kwargs, "gifts", List(LeavesFromXml("Gift", el))))
             ELSE Ok(kwargs)
      [] el.tag = "promos" ->
             IF el.kids # <<>>
             THEN Ok(DictSet(kwargs, "promos", List(LeavesFromXml("Promo", el))))
             ELSE Ok(kwargs)
      [] OTHER -> Ok(DictSet(kwargs, el.tag, el.text))

RECURSIVE FromXmlKwargs(_, _, _)
FromXmlKwargs(kids, i, kwargs) ==
    IF i > Len(kids) THEN Ok(kwargs)
    ELSE LET next == FromXmlChild(kwargs, kids[i])
         IN  IF next.status # "ok" THEN next
             ELSE FromXmlKwargs(kids, i + 1, next.value)

\* The tail shared by both decoders: default currencies, keep the
\* constructor's parameter names, call the constructor.
DefaultCurrencies(kwargs) ==
    IF "currencies" \notin DOMAIN kwargs
    THEN DictSet(kwargs, "currencies", List(<<>>))
    ELSE kwargs

FilterArgs(kwargs) == [key \in DOMAIN kwargs \cap ShopArgs |-> kwargs[key]]

FromXmlKeywords(kwargs) == FilterArgs(DefaultCurrencies(kwargs))

\* Shop.from_xml(shop_el)
ShopFromXml(shop_el) ==
    LET kwargs == FromXmlKwargs(shop_el.kids, 1, EmptyDict)
    IN  IF kwargs.status # "ok" THEN kwargs
        ELSE ShopInit(FromXmlKeywords(kwargs.value))

(***************************************************************************)
(* Feed (models/feed.py).  A date text is a sequence of characters and a   *)
(* datetime a record of numbers; strftime writes a datetime in a format    *)
(* and strptime reads a text character by character, as the pattern of    *)
(* the format directs.                                                     *)
(***************************************************************************)
DATE_FORMAT == "%Y-%m-%d %H:%M:%S"
ALT_DATE_FORMAT == "%Y-%m-%d %H:%M"

\* The values datetime.now() takes.
DateTimes ==
    [year : {2020}, month : {1}, day : {1}, hour : {10}, minute : {5}, second : {0, 7}]

DigitChars == <<"0", "1", "2", "3", "4", "5", "6", "7", "8", "9">>
IsDigit(c) == \E n \in 1..10 : DigitChars[n] = c
DigitValue(c) == (CHOOSE n \in 1..10 : DigitChars[n] = c) - 1

\* The characters the pattern \s matches, among those a string of the
\* model can hold (code points up to 255).
WhiteSpace == {" ", "\t", "\n", "\r", "\f", "", "", "", "", "", "", " "}

Pad2(n) == <<DigitChars[(n \div 10) + 1], DigitChars[(n % 10) + 1]>>
\* %Y of strftime: the decimal digits of the year, with no padding.
RECURSIVE Decimal(_)
Decimal(n) ==
    IF n < 10 THEN <<DigitChars[n + 1]>>
    ELSE Decimal(n \div 10) \o <<DigitChars[(n % 10) + 1]>>

\* dt.strftime(fmt)
Strftime(dt, fmt) ==
    Decimal(dt.year) \o <<"-">> \o Pad2(dt.month) \o <<"-">> \o Pad2(dt.day)
    \o <<" ">> \o Pad2(dt.hour) \o <<":">> \o Pad2(dt.minute)
    \o (IF fmt = DATE_FORMAT THEN <<":">> \o Pad2(dt.second) ELSE <<>>)

\* The number that the width digits of s from position p spell.
RECURSIVE Number(_, _, _)
Number(s, p, width) ==
    IF width = 0 THEN 0
    ELSE 10 * Number(s, p, width - 1) + DigitValue(s[p + width - 1])

\* A read at position p: the pairs <<value, next position>> it allows.
ReadDigits(s, p, width) ==
    IF p + width - 1 <= Len(s) /\ \A i \in p..(p + width - 1) : IsDigit(s[i])
    THEN {<<Number(s, p, width), p + width>>}
    ELSE {}
InRange(reads, low, high) == {r \in reads : r[1] \in low..high}

\* %Y: \d\d\d\d
ReadYear(s, p) == ReadDigits(s, p, 4)
\* %m: 1[0-2]|0[1-9]|[1-9]
ReadMonth(s, p) ==
    InRange(ReadDigits(s, p, 2), 1, 12) \cup InRange(ReadDigits(s, p, 1), 1, 9)
\* %d: 3[0-1]|[1-2]\d|0[1-9]|[1-9]| [1-9]
ReadDay(s, p) ==
    InRange(ReadDigits(s, p, 2), 1, 31)
    \cup InRange(ReadDigits(s, p, 1), 1, 9)
    \cup (IF p <= Len(s) /\ s[p] = " "
          THEN InRange(ReadDigits(s, p + 1, 1), 1, 9) ELSE {})
\* %H: 2[0-3]|[0-1]\d|\d
ReadHour(s, p) == InRange(ReadDigits(s, p, 2), 0, 23) \cup ReadDigits(s, p, 1)
\* %M: [0-5]\d|\d
ReadMinute(s, p) == InRange(ReadDigits(s, p, 2), 0, 59) \cup ReadDigits(s, p, 1)
\* %S: 6[0-1]|[0-5]\d|\d
ReadSecond(s, p) == InRange(ReadDigits(s, p, 2), 0, 61) \cup ReadDigits(s, p, 1)

\* A literal character of the format, and its blank: \s+
ReadChar(s, p, c) == IF p <= Len(s) /\ s[p] = c THEN {p + 1} ELSE {}
ReadBlank(s, p) ==
    {q \in (p + 1)..(Len(s) + 1) : \A i \in p..(q - 1) : s[i] \in WhiteSpace}

\* The read of a directive, and of a character of the format that is none.
ReadDirective(directive, s, p) ==
    CASE directive = "%Y" -> ReadYear(s, p)
      [] directive = "%m" -> ReadMonth(s, p)
      [] directive = "%d" -> ReadDay(s, p)
      [] directive = "%H" -> ReadHour(s, p)
      [] directive = "%M" -> ReadMinute(s, p)
      [] directive = "%S" -> ReadSecond(s, p)
ReadLiteral(c, s, p) == IF c = " " THEN ReadBlank(s, p) ELSE ReadChar(s, p, c)

\* A state of the match is <<fields read so far, position>>: Then reads a
\* directive after each state, Skip reads a character of the format.
Then(states, directive, s) ==
    UNION {{<<Append(st[1], r[1]), r[2]>> : r \in ReadDirective(directive, s, st[2])}
           : st \in states}
Skip(states, c, s) ==
    UNION {{<<st[1], q>> : q \in ReadLiteral(c, s, st[2])} : st \in states}

ReadDate(s) ==
    Then(Skip(Then(Skip(Then({<<<<>>, 1>>}, "%Y", s), "-", s), "%m", s), "-", s),
         "%d", s)
ReadMinutes(s) ==
    Then(Skip(Then(Skip(ReadDate(s), " ", s), "%H", s), ":", s), "%M", s)
ReadFormat(s, fmt) ==
    IF fmt = DATE_FORMAT
    THEN Then(Skip(ReadMinutes(s), ":", s), "%S", s)
    ELSE {<<Append(st[1], 0), st[2]>> : st \in ReadMinutes(s)}

\* The fields of the matches that leave no text unread.
Found(s, fmt) == {st[1] : st \in {m \in ReadFormat(s, fmt) : m[2] = Len(s) + 1}}

IsLeap(year) == year % 4 = 0 /\ (year % 100 # 0 \/ year % 400 = 0)
DaysInMonth(year, month) ==
    CASE month = 2 -> IF IsLeap(year) THEN 29 ELSE 28
      [] month \in {4, 6, 9, 11} -> 30
      [] OTHER -> 31

\* The value of a computation written {result : step \in {value}}, which
\* names the value of a step of the code once.
The(values) == CHOOSE value \in values : TRUE

\* datetime(*fields): ValueError when the fields read are no date and time.
ToDatetime(f, s) ==
    IF f[1] < 1 \/ f[3] > DaysInMonth(f[1], f[2]) \/ f[6] > 59
    THEN Raise("ValueError", s)
    ELSE Ok(DateTime([year |-> f[1], month |-> f[2], day |-> f[3],
                      hour |-> f[4], minute |-> f[5], second |-> f[6]]))

\* datetime.strptime(s, fmt): ValueError when s does not match fmt to its
\* end or the fields read are no date and time (seconds are 0 when the
\* format has none).
Strptime(s, fmt) ==
    The({IF read = {} THEN Raise("ValueError", s) ELSE The(read)
         : read \in {{ToDatetime(f, s) : f \in Found(s, fmt)}}})

\* AbstractModel._is_valid_datetime(dt, dt_format, attr, allow_none)
\* (models/abstract.py): None passes when allowed; a string that reads in
\* dt_format is returned normalized to the primary format; anything else
\* is a ValidationError.
IsValidDatetime(dt, dt_format, allow_none) ==
    IF dt = None
    THEN IF allow_none THEN Ok(None) ELSE Raise("ValidationError", "date")
    ELSE The({IF read.status = "ok"
              THEN Ok(Str(Strftime(read.value.v, DATE_FORMAT)))
              ELSE Raise("ValidationError", "date")
              : read \in {Strptime(dt.v, dt_format)}})

\* FeedDateSet storing the value it was given once it has been validated.
FeedDateSetAsGiven(dt, now) ==
    The({IF valid.status # "ok" THEN valid
         ELSE IF valid.value = None THEN Ok(Str(Strftime(now, DATE_FORMAT)))
         ELSE Ok(dt)
         : valid \in {IF first.status \in {"ValidationError", "ValueError"}
                      THEN IsValidDatetime(dt, ALT_DATE_FORMAT, TRUE)
                      ELSE first
                      : first \in {IsValidDatetime(dt, DATE_FORMAT, TRUE)}}})

\* Feed.date setter: the stored _date; now is datetime.now().
FeedDateSet(dt, now) ==
    The({IF valid.status # "ok" THEN valid
         ELSE IF valid.value = None THEN Ok(Str(Strftime(now, DATE_FORMAT)))
         ELSE valid
         : valid \in {IF first.status \in {"ValidationError", "ValueError"}
                      THEN IsValidDatetime(dt, ALT_DATE_FORMAT, TRUE)
                      ELSE first
                      : first \in {IsValidDatetime(dt, DATE_FORMAT, TRUE)}}})

\* Feed.date getter
FeedDateGet(feed) ==
    The({IF first.status = "ValueError"
         THEN Strptime(feed._date.v, ALT_DATE_FORMAT)
         ELSE first
         : first \in {Strptime(feed._date.v, DATE_FORMAT)}})

\* Feed(shop, date)
FeedInit(shop, date, now) ==
    The({IF stored.status # "ok" THEN stored
         ELSE Ok([shop |-> shop, _date |-> stored.value])
         : stored \in {FeedDateSet(date, now)}})

\* Feed.create_dict, as AbstractModel.to_dict() returns it.
FeedCreateDict(feed) ==
    The({IF date.status # "ok" THEN date
         ELSE Ok([shop |-> ShopToDict(feed.shop), date |-> date.value])
         : date \in {FeedDateGet(feed)}})

\* Feed.create_xml: shop.to_xml(feed_el) appends the shop element.
FeedCreateXml(feed) ==
    El("yml_catalog", None, {<<"date", feed._date.v>>}, <<ShopCreateXml(feed.shop)>>)

\* Feed.from_xml(el)
FeedFromXml(el, now) ==
    The({IF shop.status # "ok" THEN shop
         ELSE FeedInit(shop.value, AttribGet(el, "date"), now)
         : shop \in {ShopFromXml(el.kids[1])}})

(***************************************************************************)
(* Event streams: the (event, element) pairs a pull parser yields for the  *)
(* content of the shop element, in document order.                         *)
(***************************************************************************)
Ev(event, el) == [event |-> event, el |-> el]

RECURSIVE Events(_)
RECURSIVE EventsOfKids(_, _)
Events(el) == <<Ev("start", el)>> \o EventsOfKids(el.kids, 1) \o <<Ev("end", el)>>
EventsOfKids(kids, i) ==
    IF i > Len(kids) THEN <<>> ELSE Events(kids[i]) \o EventsOfKids(kids, i + 1)

(***************************************************************************)
(* Shop.from_iterator: the streaming decoder, one loop iteration a step.   *)
(*   doc     the shop element the stream was produced from                 *)
(*   stream  the events the iterator yields; pos of them are consumed      *)
(*   pc      "outer", the wrapper whose sub-loop is running, or "done"     *)
(*   event   the local variable event                                      *)
(*   kwargs  the local dict kwargs                                         *)
(*   acc     the list the running sub-loop is filling                      *)
(*   opened  the position in stream of the event that entered the sub-loop *)
(*   result  what from_iterator returned or raised                         *)
(***************************************************************************)
VARIABLES doc, stream, pos, pc, event, kwargs, acc, opened, result

dvars == <<doc, stream, pos, pc, event, kwargs, acc, opened, result>>

(***************************************************************************)
(* A program that builds and encodes a feed:                               *)
(*   shop    the Shop instance (None before construction)                  *)
(*   feed    the Feed instance wrapping shop (None before construction)    *)
(*   out     the operation last applied, with the value it returned (an    *)
(*           encoder or decoder) or was given (a constructor or setter)    *)
(*   raised  the exception class the last operation raised, "" for none    *)
(***************************************************************************)
VARIABLES shop, feed, out, raised

ovars == <<shop, feed, out, raised>>
vars == <<dvars, ovars>>

Running == Raise("running", "")

\* OfferFromIterator with the simplified kind as the final else.
OfferFromIteratorFallback(offer_el) ==
    LET offer == OfferFromXml(offer_el)
    IN  IF offer.status = "ok" THEN offer
        ELSE Ok(LeafFromXml("SimplifiedOffer", offer_el))

\* The if/elif chain of from_iterator on offer_el.attrib.get('type').
OfferFromIterator(offer_el) ==
    LET offer_type == AttribGet(offer_el, "type")
    IN  CASE offer_type = None -> Ok(LeafFromXml("SimplifiedOffer", offer_el))
          [] offer_type = Str("vendor.model") -> Ok(LeafFromXml("ArbitraryOffer", offer_el))
          [] offer_type = Str("book") -> Ok(LeafFromXml("BookOffer", offer_el))
          [] offer_type = Str("audiobook") -> Ok(LeafFromXml("AudioBookOffer", offer_el))
          [] offer_type = Str("artist.title") -> Ok(LeafFromXml("MusicVideoOffer", offer_el))
          [] offer_type = Str("medicine") -> Ok(LeafFromXml("MedicineOffer", offer_el))
          [] offer_type = Str("event-ticket") -> Ok(LeafFromXml("EventTicketOffer", offer_el))
          [] offer_type = Str("alco") -> Ok(LeafFromXml("AlcoholOffer", offer_el))
          [] OTHER -> UnexpectedType(offer_type)

\* Offer.from_iterator(iterator, offer_el) consumes the events of the
\* offer's own subtree: the position just past the offer's end event
\* (the end of the stream when there is none).
PastOffer(p, offer_el) ==
    LET ends == {q \in (p + 1)..Len(stream) : stream[q] = Ev("end", offer_el)}
    IN  IF ends = {} THEN Len(stream)
        ELSE CHOOSE q \in ends : \A r \in ends : q <= r

\* The kwargs key a wrapper's list is stored under, and its entity class.
KeyOf(tag) ==
    CASE tag = "delivery-options" -> "delivery_options"
      [] tag = "pickup-options" -> "pickup_options"
      [] OTHER -> tag

ClassOf(tag) ==
    CASE tag = "currencies" -> "Currency"
      [] tag = "categories" -> "Category"
      [] tag = "delivery-options" -> "Option"
      [] tag = "pickup-options" -> "Option"
      [] tag = "gifts" -> "Gift"
      [] tag = "promos" -> "Promo"

StartWrappers == {"currencies", "categories", "delivery-options", "offers", "gifts", "promos"}
PairWrappers == {"currencies", "categories", "delivery-options", "pickup-options"}
ItemWrappers == {"gifts", "promos"}

\* The branch of the outer loop's if/elif chain taken for (event, el).
OuterBranch(ev, el) ==
    IF el.tag \in StartWrappers /\ ev = "start" THEN el.tag
    ELSE IF el.tag = "pickup-options" THEN el.tag
    ELSE "else"

\* "for event, el in iterator" takes the next pair and enters a sub-loop.
EnterWrapper(tag) ==
    /\ UNCHANGED ovars
    /\ pc = "outer"
    /\ pos < Len(stream)
    /\ OuterBranch(stream[pos + 1].event, stream[pos + 1].el) = tag
    /\ pos' = pos + 1
    /\ event' = stream[pos + 1].event
    /\ pc' = tag
    /\ acc' = <<>>
    /\ opened' = pos + 1
    /\ UNCHANGED <<doc, stream, kwargs, result>>

\* The else branch of the outer loop: an end event assigns a scalar.
OuterElse ==
    /\ UNCHANGED ovars
    /\ pc = "outer"
    /\ pos < Len(stream)
    /\ OuterBranch(stream[pos + 1].event, stream[pos + 1].el) = "else"
    /\ pos' = pos + 1
    /\ event' = stream[pos + 1].event
    /\ kwargs' = IF stream[pos + 1].event = "end"
                 THEN DictSet(kwargs, stream[pos + 1].el.tag, stream[pos + 1].el.text)
                 ELSE kwargs
    /\ UNCHANGED <<doc, stream, pc, acc, opened, result>>

\* One iteration of "for event, x_el in iterator" in the sub-loop of
\* currencies, categories, delivery-options or pickup-options.
PairStep(tag) ==
    /\ UNCHANGED ovars
    /\ pc = tag
    /\ tag \in PairWrappers
    /\ IF pos = Len(stream)
       THEN /\ kwargs' = DictSet(kwargs, KeyOf(tag), List(acc))
            /\ pc' = "outer"
            /\ UNCHANGED <<pos, event, acc>>
       ELSE LET e == stream[pos + 1]
            IN  /\ pos' = pos + 1
                /\ event' = e.event
                /\ IF e.event = "end" /\ e.el.tag = tag
                   THEN /\ kwargs' = DictSet(kwargs, KeyOf(tag), List(acc))
                        /\ pc' = "outer"
                        /\ UNCHANGED acc
                   ELSE /\ acc' = IF e.event = "end"
                                  THEN Append(acc, LeafFromXml(ClassOf(tag), e.el))
                                  ELSE acc
                        /\ UNCHANGED <<kwargs, pc>>
    /\ UNCHANGED <<doc, stream, opened, result>>

\* One iteration of the offers sub-loop.
OffersStep ==
    /\ UNCHANGED ovars
    /\ pc = "offers"
    /\ IF pos = Len(stream)
       THEN /\ kwargs' = DictSet(kwargs, "offers", List(acc))
            /\ pc' = "outer"
            /\ UNCHANGED <<pos, event, acc, result>>
       ELSE LET e == stream[pos + 1]
                offer == OfferFromIterator(e.el)
            IN  /\ event' = e.event
                /\ IF e.event = "end" /\ e.el.tag = "offers"
                   THEN /\ kwargs' = DictSet(kwargs, "offers", List(acc))
                        /\ pc' = "outer"
                        /\ pos' = pos + 1
                        /\ UNCHANGED <<acc, result>>
                   ELSE IF e.event = "start" /\ e.el.tag = "offer"
                   THEN IF offer.status = "ok"
                        THEN /\ acc' = Append(acc, offer.value)
                             /\ pos' = PastOffer(pos + 1, e.el)
                             /\ UNCHANGED <<kwargs, pc, result>>
                        ELSE /\ result' = offer
                             /\ pc' = "done"
                             /\ pos' = pos + 1
                             /\ UNCHANGED <<kwargs, acc>>
                   ELSE /\ pos' = pos + 1
                        /\ UNCHANGED <<kwargs, pc, acc, result>>
    /\ UNCHANGED <<doc, stream, opened>>

\* One iteration of "for x_el in iterator" in the sub-loop of gifts or
\* promos: the pair is bound to x_el whole and event keeps its value;
\* a pair has no attribute tag.
ItemStep(tag) ==
    /\ UNCHANGED ovars
    /\ pc = tag
    /\ tag \in ItemWrappers
    /\ IF pos = Len(stream)
       THEN /\ kwargs' = IF acc # <<>> THEN DictSet(kwargs, tag, List(acc)) ELSE kwargs
            /\ pc' = "outer"
            /\ UNCHANGED <<pos, acc, result>>
       ELSE /\ pos' = pos + 1
            /\ IF event = "end"
               THEN /\ result' = Raise("AttributeError", "tag")
                    /\ pc' = "done"
               ELSE UNCHANGED <<pc, result>>
            /\ UNCHANGED <<kwargs, acc>>
    /\ UNCHANGED <<doc, stream, event, opened>>

\* FromIteratorKeywords without the filter on the parameter names.
FromIteratorKeywordsUnfiltered(kw) ==
    IF "currencies" \notin DOMAIN kw
    THEN DictSet(kw, "currencies", List(<<>>))
    ELSE kw

\* The tail of from_iterator: default currencies, keep the constructor's
\* parameter names.
FromIteratorKeywords(kw) ==
    LET defaulted == IF "currencies" \notin DOMAIN kw
                     THEN DictSet(kw, "currencies", List(<<>>))
                     ELSE kw
    IN  [key \in DOMAIN defaulted \cap ShopArgs |-> defaulted[key]]

\* The iterator is exhausted in the outer loop: build the Shop.
Return ==
    /\ UNCHANGED ovars
    /\ pc = "outer"
    /\ pos = Len(stream)
    /\ result' = ShopInit(FromIteratorKeywords(kwargs))
    /\ pc' = "done"
    /\ UNCHANGED <<doc, stream, pos, event, kwargs, acc, opened>>

(***************************************************************************)
(* Shop documents fed to the decoders: name, company, categories and       *)
(* offers (one of them possibly missing), then up to MaxExtras further     *)
(* children.                                                               *)
(***************************************************************************)
MaxExtras == 2

Scalar(tag, s) == El(tag, Str(s), {}, <<>>)
Leaf(tag, id) == El(tag, None, {<<"id", id>>}, <<>>)
Wrapper(tag, kids) == El(tag, None, {}, kids)
Offer(typeAttrib, id) ==
    El("offer", None, typeAttrib \cup {<<"id", id>>}, <<Scalar("price", "1")>>)

KnownTypes ==
    {"vendor.model", "book", "audiobook", "artist.title", "medicine",
     "event-ticket", "alco"}
TypeAttribs == {{}} \cup {{<<"type", ty>>} : ty \in KnownTypes \cup {"bogus"}}

OffersEls ==
    {Wrapper("offers", <<>>),
     Wrapper("offers", <<Offer({<<"type", "book">>}, "o1"), Offer({}, "o2")>>)}
    \cup {Wrapper("offers", <<Offer(a, "o1")>>) : a \in TypeAttribs}

NameEl == Scalar("name", "n")
CompanyEl == Scalar("company", "c")
CategoriesEl ==
    Wrapper("categories",
            <<El("category", Str("k"), {<<"id", "k1">>}, <<>>), Leaf("category", "k2")>>)

Heads ==
    {<<NameEl, CompanyEl, CategoriesEl, o>> : o \in OffersEls}
    \cup {<<CompanyEl, CategoriesEl, Wrapper("offers", <<>>)>>,
          <<NameEl, CategoriesEl, Wrapper("offers", <<>>)>>,
          <<NameEl, CompanyEl, Wrapper("offers", <<>>)>>,
          <<NameEl, CompanyEl, CategoriesEl>>}

ExtraMenu ==
    {Scalar("url", "u"),
     Wrapper("currencies", <<Leaf("currency", "c1"), Leaf("currency", "c2")>>),
     Wrapper("delivery-options", <<Leaf("option", "d1")>>),
     Wrapper("pickup-options", <<Leaf("option", "p1")>>),
     Wrapper("gifts", <<Leaf("gift", "g1")>>),
     Wrapper("promos", <<Leaf("promo", "r1")>>),
     El("foreign", None, {}, <<Scalar("name", "z")>>)}

Extras == UNION {[1..n -> ExtraMenu] : n \in 0..MaxExtras}

Docs == {El("shop", None, {}, h \o x) : h \in Heads, x \in Extras}

\* The iterator is scoped to the shop's content, with or without the end
\* event of the shop element itself.
StreamsOf(shop_el) ==
    {EventsOfKids(shop_el.kids, 1),
     EventsOfKids(shop_el.kids, 1) \o <<Ev("end", shop_el)>>}

NoOut == [op |-> "", value |-> None]

ObjectsIdle ==
    /\ shop = None
    /\ feed = None
    /\ out = NoOut
    /\ raised = ""

DecodeInit ==
    /\ ObjectsIdle
    /\ doc \in Docs
    /\ stream \in StreamsOf(doc)
    /\ pos = 0
    /\ pc = "outer"
    /\ event = ""
    /\ kwargs = EmptyDict
    /\ acc = <<>>
    /\ opened = 0
    /\ result = Running

DecodeNext ==
    \/ \E tag \in StartWrappers \cup {"pickup-options"} : EnterWrapper(tag)
    \/ OuterElse
    \/ \E tag \in PairWrappers : PairStep(tag)
    \/ OffersStep
    \/ \E tag \in ItemWrappers : ItemStep(tag)
    \/ Return

SpecDecode == DecodeInit /\ [][DecodeNext]_vars

(***************************************************************************)
(* Building and encoding: the arguments a program passes.                  *)
(***************************************************************************)
MaxUrlLength == 512

Twice(s) == s \o s
Url512 == Twice(Twice(Twice(Twice(Twice(Twice(Twice(Twice(Twice("u")))))))))
Url513 == Url512 \o "u"

Urls == {None, Str(""), Str("u"), Str(Url512), Str(Url513)}
Scalars ==
    {[platform |-> None, agency |-> None, email |-> None],
     [platform |-> Str(""), agency |-> Str(""), email |-> Str("")],
     [platform |-> Str("p"), agency |-> Str("a"), email |-> Str("e")]}
AutoDiscounts == {None, Bool(FALSE), Str("yes"), Str("err")}
Entity(cls, id) == [cls |-> cls, id |-> Str(id), text |-> None]
OptionLists == {None, List(<<>>), List(<<Entity("Option", "d1")>>)}
PickupLists == {None, List(<<Entity("Option", "p1")>>)}
Gifts == List(<<Entity("Gift", "g1"), Entity("Gift", "g2")>>)
Promos == List(<<Entity("Promo", "r1")>>)
GiftsAndPromos ==
    {[gifts |-> None, promos |-> None],
     [gifts |-> Gifts, promos |-> List(<<>>)],
     [gifts |-> List(<<>>), promos |-> Promos]}
Catalogs ==
    {[currencies |-> List(<<>>), categories |-> List(<<>>), offers |-> List(<<>>)],
     [currencies |-> List(<<Entity("Currency", "c1")>>),
      categories |-> List(<<Entity("Category", "k1")>>),
      offers |-> List(<<Entity("BookOffer", "o1"), Entity("SimplifiedOffer", "o2")>>)]}
Dates ==
    {None, Str(<<"y", "e", "s", "t", "e", "r", "d", "a", "y">>)}
    \cup {Str(Strftime(dt, DATE_FORMAT)) : dt \in DateTimes}
    \cup {Str(Strftime(dt, ALT_DATE_FORMAT)) : dt \in DateTimes}
    \cup {Str(<<"2", "0", "2", "0", "-", "1", "-", " ", "1", "\t", " ",
                 "1", "0", ":", "5", ":", "7">>)}

DecoderIdle ==
    /\ doc = None
    /\ stream = <<>>
    /\ pos = 0
    /\ pc = "idle"
    /\ event = ""
    /\ kwargs = EmptyDict
    /\ acc = <<>>
    /\ opened = 0
    /\ result = Running

ModelInit == ObjectsIdle /\ DecoderIdle

\* shop = Shop(name, company, currencies, categories, offers, ...)
NewShop ==
    /\ shop = None
    /\ \E url \in Urls, scalars \in Scalars, ead \in AutoDiscounts,
          options \in OptionLists, extras \in GiftsAndPromos, catalog \in Catalogs :
          LET new == ShopInit([name |-> Str("n"), company |-> Str("c"),
                               currencies |-> catalog.currencies,
                               categories |-> catalog.categories,
                               offers |-> catalog.offers, url |-> url,
                               platform |-> scalars.platform,
                               version |-> Str("1"), agency |-> scalars.agency,
                               email |-> scalars.email,
                               delivery_options |-> options,
                               enable_auto_discounts |-> ead,
                               gifts |-> extras.gifts, promos |-> extras.promos])
          IN  /\ shop' = new.value
              /\ raised' = IF new.status = "ok" THEN "" ELSE new.status
              /\ out' = [op |-> "Shop", value |-> url]
    /\ UNCHANGED <<feed, dvars>>

\* shop.url = value; feed.shop is the same object.
SetUrl ==
    /\ shop # None
    /\ \E value \in Urls :
          LET set == UrlSet(value)
          IN  /\ shop' = IF set.status = "ok" THEN [shop EXCEPT !._url = set.value] ELSE shop
              /\ feed' = IF set.status = "ok" /\ feed # None
                         THEN [feed EXCEPT !.shop._url = set.value] ELSE feed
              /\ raised' = IF set.status = "ok" THEN "" ELSE set.status
              /\ out' = [op |-> "Shop.url=", value |-> value]
    /\ UNCHANGED dvars

\* shop.enable_auto_discounts = value
SetEnableAutoDiscounts ==
    /\ shop # None
    /\ \E value \in AutoDiscounts :
          LET set == EnableAutoDiscountsSet(value)
          IN  /\ shop' = IF set.status = "ok"
                         THEN [shop EXCEPT !._enable_auto_discounts = set.value] ELSE shop
              /\ feed' = IF set.status = "ok" /\ feed # None
                         THEN [feed EXCEPT !.shop._enable_auto_discounts = set.value]
                         ELSE feed
              /\ raised' = IF set.status = "ok" THEN "" ELSE set.status
              /\ out' = [op |-> "Shop.enable_auto_discounts=", value |-> value]
    /\ UNCHANGED dvars

\* shop.delivery_options = value
SetDeliveryOptions ==
    /\ shop # None
    /\ \E value \in OptionLists :
          /\ shop' = [shop EXCEPT !._delivery_options = OptionsSet(value)]
          /\ feed' = IF feed # None
                     THEN [feed EXCEPT !.shop._delivery_options = OptionsSet(value)]
                     ELSE feed
          /\ raised' = ""
          /\ out' = [op |-> "Shop.delivery_options=", value |-> value]
    /\ UNCHANGED dvars

\* shop.pickup_options = value
SetPickupOptions ==
    /\ shop # None
    /\ \E value \in PickupLists :
          /\ shop' = [shop EXCEPT !._pickup_options = OptionsSet(value)]
          /\ feed' = IF feed # None
                     THEN [feed EXCEPT !.shop._pickup_options = OptionsSet(value)]
                     ELSE feed
          /\ raised' = ""
          /\ out' = [op |-> "Shop.pickup_options=", value |-> value]
    /\ UNCHANGED dvars

\* feed = Feed(shop, date)
NewFeed ==
    /\ shop # None
    /\ feed = None
    /\ \E date \in Dates, now \in DateTimes :
          \E new \in {FeedInit(shop, date, now)} :
              /\ feed' = new.value
              /\ raised' = IF new.status = "ok" THEN "" ELSE new.status
              /\ out' = [op |-> "Feed", value |-> date]
    /\ UNCHANGED <<shop, dvars>>

\* feed.date = dt
SetDate ==
    /\ feed # None
    /\ \E dt \in Dates, now \in DateTimes :
          \E set \in {FeedDateSet(dt, now)} :
              /\ feed' = IF set.status = "ok" THEN [feed EXCEPT !._date = set.value] ELSE feed
              /\ raised' = IF set.status = "ok" THEN "" ELSE set.status
              /\ out' = [op |-> "Feed.date=", value |-> dt]
    /\ UNCHANGED <<shop, dvars>>

Returned(op, value) ==
    /\ out' = [op |-> op, value |-> value]
    /\ raised' = ""
    /\ UNCHANGED <<shop, feed, dvars>>

ShopToDictCall == shop # None /\ Returned("Shop.to_dict", ShopToDict(shop))
ShopToXmlCall == shop # None /\ Returned("Shop.to_xml", ShopCreateXml(shop))
FeedToDictCall == feed # None /\ Returned("Feed.to_dict", FeedCreateDict(feed))
FeedToXmlCall == feed # None /\ Returned("Feed.to_xml", FeedCreateXml(feed))
FeedDateCall == feed # None /\ Returned("Feed.date", FeedDateGet(feed))

\* Feed.from_xml(feed.to_xml())
RoundTrip ==
    /\ feed # None
    /\ \E now \in DateTimes :
          Returned("Feed.from_xml", FeedFromXml(FeedCreateXml(feed), now))

ModelNext ==
    \/ NewShop
    \/ SetUrl
    \/ SetEnableAutoDiscounts
    \/ SetDeliveryOptions
    \/ SetPickupOptions
    \/ NewFeed
    \/ SetDate
    \/ ShopToDictCall
    \/ ShopToXmlCall
    \/ FeedToDictCall
    \/ FeedToXmlCall
    \/ FeedDateCall
    \/ RoundTrip

SpecModel == ModelInit /\ [][ModelNext]_vars

(***************************************************************************)
(* Properties of the decoders, checked under SpecDecode.                   *)
(***************************************************************************)
Done == pc = "done"
Tree == ShopFromXml(doc)

\* The children the feed grammar gives a shop element.
GrammarTags ==
    {"name", "company", "url", "platform", "version", "agency", "email",
     "currencies", "categories", "delivery-options", "pickup-options",
     "enable_auto_discounts", "offers", "gifts", "promos"}
ValidDoc == \A i \in 1..Len(doc.kids) : doc.kids[i].tag \in GrammarTags

\* C1: for every valid shop document (children of the feed grammar, a
\* non-empty gifts or promos wrapper followed by further children
\* included) that the tree decoder turns into a Shop, the streaming
\* decoder fed the document's events returns a Shop too, and the two Shops
\* have equal to_dict() results.
C1_StreamingEqualsTree ==
    (Done /\ ValidDoc /\ Tree.status = "ok") =>
        /\ result.status = "ok"
        /\ ShopToDict(result.value) = ShopToDict(Tree.value)

\* The offers wrapper of the document, and the kind the claimed dispatch
\* table gives for a type attribute.
HasOffers == \E i \in 1..Len(doc.kids) : doc.kids[i].tag = "offers"
OfferEls == (CHOOSE el \in {doc.kids[i] : i \in 1..Len(doc.kids)} : el.tag = "offers").kids
TypeOfOffer(el) == AttribGet(el, "type")
Known(ty) == ty = None \/ ty.v \in KnownTypes
KindFor(ty) ==
    CASE ty = None -> "SimplifiedOffer"
      [] ty = Str("vendor.model") -> "ArbitraryOffer"
      [] ty = Str("book") -> "BookOffer"
      [] ty = Str("audiobook") -> "AudioBookOffer"
      [] ty = Str("artist.title") -> "MusicVideoOffer"
      [] ty = Str("medicine") -> "MedicineOffer"
      [] ty = Str("event-ticket") -> "EventTicketOffer"
      [] ty = Str("alco") -> "AlcoholOffer"

\* C3: both decoders dispatch an offer on its type attribute by the same
\* table; an absent type gives the simplified kind; any other present
\* value makes both raise ParseError with that value in the message, and
\* no Shop is returned.
C3_OfferDispatch ==
    (Done /\ HasOffers) =>
        IF \A i \in 1..Len(OfferEls) : Known(TypeOfOffer(OfferEls[i]))
        THEN /\ result.status # "ParseError"
             /\ Tree.status # "ParseError"
             /\ result.status = "ok" =>
                   /\ Len(result.value.offers.v) = Len(OfferEls)
                   /\ \A i \in 1..Len(OfferEls) :
                         result.value.offers.v[i].cls = KindFor(TypeOfOffer(OfferEls[i]))
             /\ Tree.status = "ok" =>
                   \A i \in 1..Len(OfferEls) :
                       Tree.value.offers.v[i].cls = KindFor(TypeOfOffer(OfferEls[i]))
        ELSE LET bad == CHOOSE i \in 1..Len(OfferEls) :
                           /\ ~Known(TypeOfOffer(OfferEls[i]))
                           /\ \A j \in 1..(i - 1) : Known(TypeOfOffer(OfferEls[j]))
                 msg == "Got unexpected offer type: " \o TypeOfOffer(OfferEls[bad]).v
             IN  /\ result = [status |-> "ParseError", value |-> None, msg |-> msg]
                 /\ Tree = [status |-> "ParseError", value |-> None, msg |-> msg]

C3_Witness ==
    /\ Done
    /\ result.status = "ParseError"
    /\ result.msg = "Got unexpected offer type: bogus"
    /\ Tree.status = "ParseError"

\* C9: the sub-loop of a leaf-collection wrapper ends on the end event of
\* the wrapper that opened it, having consumed nothing after it, with one
\* decoded entity per child of that wrapper, in document order.
LeafWrappers == PairWrappers \cup ItemWrappers
C9_SubLoopStopsAtWrapperEnd ==
    [][\A tag \in LeafWrappers :
          (pc = tag /\ pc' = "outer") =>
              /\ pos' = pos + 1
              /\ stream[pos'] = Ev("end", stream[opened].el)
              /\ acc = LeavesFromXml(ClassOf(tag), stream[opened].el)]_vars

\* C10: every scalar the streaming decoder holds for a Shop parameter is
\* the text of a direct child of the shop element with that tag, as in
\* the tree decoder; nested elements and the shop element's own end event
\* set no Shop field.
ScalarArgs ==
    {"name", "company", "url", "platform", "version", "agency", "email",
     "enable_auto_discounts"}
C10_ScalarsFromDirectChildren ==
    \A key \in DOMAIN kwargs \cap ScalarArgs :
        \E i \in 1..Len(doc.kids) :
            doc.kids[i].tag = key /\ doc.kids[i].text = kwargs[key]

(***************************************************************************)
(* Properties of the encoders and setters, checked under SpecModel.        *)
(***************************************************************************)
NonEmpty(lst) == lst.t = "list" /\ lst.v # <<>>
WrapperTags(el) == {el.kids[i].tag : i \in 1..Len(el.kids)}

\* C2: decoding the XML of a validly constructed feed gives a feed with
\* the same to_dict(), also when optional scalars of the shop hold an
\* empty string and when optional collections are empty.
C2_RoundTrip ==
    out.op = "Feed.from_xml" =>
        /\ out.value.status = "ok"
        /\ FeedCreateDict(out.value.value) = FeedCreateDict(feed)

\* C4: the shop element always has the currencies, categories and offers
\* wrappers, and has the delivery-options, pickup-options, gifts and promos
\* wrappers exactly when the collection is non-empty.
C4_Wrappers ==
    out.op = "Shop.to_xml" =>
        /\ {"currencies", "categories", "offers"} \subseteq WrapperTags(out.value)
        /\ "delivery-options" \in WrapperTags(out.value) <=> NonEmpty(shop._delivery_options)
        /\ "pickup-options" \in WrapperTags(out.value) <=> NonEmpty(shop._pickup_options)
        /\ "gifts" \in WrapperTags(out.value) <=> NonEmpty(shop.gifts)
        /\ "promos" \in WrapperTags(out.value) <=> NonEmpty(shop.promos)

C4_Witness ==
    /\ out.op = "Shop.to_xml"
    /\ shop.offers.v = <<>>
    /\ shop.currencies.v = <<>>
    /\ shop.gifts = List(<<>>)
    /\ NonEmpty(shop.promos)
    /\ NonEmpty(shop._pickup_options)
    /\ ~NonEmpty(shop._delivery_options)
    /\ {"promos", "pickup-options", "offers", "currencies"}
          \subseteq WrapperTags(out.value)
    /\ "gifts" \notin WrapperTags(out.value)
    /\ "delivery-options" \notin WrapperTags(out.value)

\* C5: a url longer than 512 characters is refused with a
\* ValidationError, at construction and on assignment, so no Shop holds
\* one.
C5_UrlBound ==
    /\ shop # None => (shop._url.t = "str" => Len(shop._url.v) <= MaxUrlLength)
    /\ (out.op \in {"Shop", "Shop.url="} /\ out.value.t = "str"
            /\ Len(out.value.v) > MaxUrlLength)
         => raised = "ValidationError"

\* C6: after an assignment to Feed.date (at construction or later) of
\* None, a primary-format or a fallback-format string, the stored timestamp
\* is in the primary format, and the date attribute Feed.to_xml writes is
\* always in the primary format.
\* s is the text strftime writes in fmt for the datetime it spells.
InFormat(s, fmt) ==
    \E read \in {Strptime(s, fmt)} :
        read.status = "ok" /\ Strftime(read.value.v, fmt) = s
InPrimaryFormat(s) == InFormat(s, DATE_FORMAT)
InFallbackFormat(s) == InFormat(s, ALT_DATE_FORMAT)
DateAssigned ==
    /\ InPrimaryFormat(feed._date.v)

\* C7: Feed.to_xml returns a yml_catalog element whose only child is the
\* shop element and whose date attribute equals the value of the date
\* property, which is also the date entry of Feed.to_dict().
C7_FeedXml ==
    out.op = "Feed.to_xml" =>
        /\ out.value.tag = "yml_catalog"
        /\ Tags(out.value.kids) = <<"shop">>
        /\ AttribGet(out.value, "date") = FeedDateGet(feed).value
        /\ FeedCreateDict(feed).value.date = FeedDateGet(feed).value

\* C8: the keys of Shop.to_dict() are exactly the twelve the test lists,
\* and each scalar entry equals the shop attribute of the same name.
C8_ShopDictKeys ==
    out.op = "Shop.to_dict" =>
        /\ DOMAIN out.value =
              {"name", "company", "url", "platform", "version", "agency", "email",
               "currencies", "categories", "delivery_options", "pickup_options",
               "enable_auto_discounts"}
        /\ \A key \in ScalarArgs : out.value[key] = ShopAttr(shop, key)

(***************************************************************************)
(* Shop.from_iterator on any stream: the balanced streams of a document    *)
(* and malformed ones, with a wrapper's end event that no start event      *)
(* precedes, or cut before the end event of the last child.                *)
(***************************************************************************)
StrayTags == {"currencies", "delivery-options", "pickup-options"}

StrayEndStreams(shop_el) ==
    {EventsOfKids(shop_el.kids, 1) \o <<Ev("end", Wrapper(tag, <<>>))>> : tag \in StrayTags}

TruncatedStreams(shop_el) ==
    LET events == EventsOfKids(shop_el.kids, 1)
    IN  {SubSeq(events, 1, Len(events) - 1)}

AnyStreamsOf(shop_el) ==
    StreamsOf(shop_el) \cup StrayEndStreams(shop_el) \cup TruncatedStreams(shop_el)

StreamsInit ==
    /\ ObjectsIdle
    /\ doc \in Docs
    /\ stream \in AnyStreamsOf(doc)
    /\ pos = 0
    /\ pc = "outer"
    /\ event = ""
    /\ kwargs = EmptyDict
    /\ acc = <<>>
    /\ opened = 0
    /\ result = Running

SpecStreams == StreamsInit /\ [][DecodeNext]_vars

(***************************************************************************)
(* Properties of the decoders on any stream, checked under SpecStreams.    *)
(***************************************************************************)
ConstructorParameters ==
    {"name", "company", "currencies", "categories", "offers", "url", "platform",
     "version", "agency", "email", "delivery_options", "pickup_options",
     "enable_auto_discounts", "gifts", "promos"}

\* from_iterator reached its constructor call (it raised nothing before).
ConstructorCalled == Done /\ result.status \notin {"ParseError", "AttributeError"}

StreamHas(tag) == \E q \in 1..Len(stream) : stream[q].el.tag = tag
DocHas(tag) == \E i \in 1..Len(doc.kids) : doc.kids[i].tag = tag

\* C11: in both decoders the keywords handed to the Shop constructor are
\* constructor parameters (foreign tags are dropped) and include
\* currencies, the empty list when the input has no currencies wrapper.
C11_KeywordsAreParameters ==
    /\ ConstructorCalled =>
          LET kw == FromIteratorKeywords(kwargs)
          IN  /\ DOMAIN kw \subseteq ConstructorParameters
              /\ "currencies" \in DOMAIN kw
              /\ ~StreamHas("currencies") => kw["currencies"] = List(<<>>)
    /\ LET read == FromXmlKwargs(doc.kids, 1, EmptyDict)
       IN  read.status = "ok" =>
              LET kw == FromXmlKeywords(read.value)
              IN  /\ DOMAIN kw \subseteq ConstructorParameters
                  /\ "currencies" \in DOMAIN kw
                  /\ ~DocHas("currencies") => kw["currencies"] = List(<<>>)

C11_Witness ==
    /\ ConstructorCalled
    /\ result.status = "ok"
    /\ "foreign" \in DOMAIN kwargs
    /\ ~StreamHas("currencies")
    /\ result.value.currencies = List(<<>>)
    /\ "foreign" \in DOMAIN FromXmlKwargs(doc.kids, 1, EmptyDict).value

\* The stream ends with a wrapper's end event that no start event precedes,
\* and the outer loop reads it (no gifts or promos sub-loop consumed it).
StrayEndAtOuterLevel ==
    /\ stream \in StrayEndStreams(doc)
    /\ \A tag \in ItemWrappers : ~DocHas(tag)

\* The stream is cut before the end event of its last wrapper, whose
\* sub-loop then exhausts it.
CutInsideSubLoop ==
    /\ stream \in TruncatedStreams(doc)
    /\ doc.kids[Len(doc.kids)].tag \in PairWrappers \cup {"offers"}
    /\ \A tag \in ItemWrappers : ~DocHas(tag)

\* C12: from_iterator fails and returns no Shop when a wrapper's end event
\* arrives at the outer level with no start event before it, or when a
\* wrapper's sub-loop exhausts the stream before its end event.
C12_MalformedStreamIsFatal ==
    (Done /\ (StrayEndAtOuterLevel \/ CutInsideSubLoop)) => result.status # "ok"

(***************************************************************************)
(* Required constructor arguments have no default in decoding; checked     *)
(* under SpecDecode.                                                       *)
(***************************************************************************)
RequiredTags == {"name", "company", "categories", "offers"}

\* The shop element has no child of some required tag.
LacksRequired == \E tag \in RequiredTags : ~DocHas(tag)

NoShopNoDomainError(r) == r.status \notin {"ok", "ValidationError", "ParseError"}

\* C13: when the shop input lacks a name or company element or a categories
\* or offers wrapper, neither from_xml nor from_iterator returns a Shop, and
\* the failure is neither a ValidationError nor a ParseError.
C13_RequiredHaveNoDefault ==
    LacksRequired =>
        /\ NoShopNoDomainError(Tree)
        /\ Done => NoShopNoDomainError(result)

====
